---- MODULE Spec2Model ----
(***************************************************************************)
(* Model of the moderation relay bot of src/api/webhook.js: the pending    *)
(* store, the cooldown map, the ban list, the outcome counters, the edit   *)
(* session, and the handlers Telegraf dispatches updates to.  A handler    *)
(* runs on Node's single thread, so everything between two awaits is one   *)
(* atomic step; handlers of different updates interleave at their awaits.  *)
(***************************************************************************)
EXTENDS Integers, Sequences, FiniteSets, Bags, TLC

(* ------------------------------ bounds --------------------------------- *)
\* identities are 1..MaxUser
MaxUser == 2
\* message updates received over a run (each takes the next message id of its chat)
MaxMsgs == 3
\* message updates received over a run in which every kind of message is sent
MaxBusy == 2
\* handlers suspended at an await at the same time
MaxConc == 2
\* cap on the rejected counter (reject raises it on every call)
MaxRejected == 1

(* --------------------------- program constants ------------------------- *)
\* const adminId = Number(process.env.ADMIN_ID)
adminId == 1
\* const RATE_LIMIT_MS = 5000
RATE_LIMIT_MS == 5000
\* for (let i = 0; i < 20; i++) in stt
POLL_ATTEMPTS == 20

Users == 1..MaxUser
MsgIds == 1..MaxMsgs
\* `${userMsgId}_${userId}`: two decimal numbers around one underscore, so the
\* string determines the pair and the pair is used for it
Key(userMsgId, userId) == <<userMsgId, userId>>
Keys == {Key(m, u) : m \in MsgIds, u \in Users}
\* a key on a button that an earlier life of the process sent: never in this store
OldKey == Key(0, MaxUser)
AllKeys == Keys \cup {OldKey}

\* JavaScript null, and the values the || and if tests of the code take as false
Null == "NULL"
Falsy(x) == x = Null \/ x = ""

Types == {"text", "photo", "video", "document", "voice"}
\* message bodies of text messages (Telegram text messages are never empty)
Texts == {"hello", "fixed"}
\* ctx.message.caption || ''
Captions == {"cap"}
\* readings of Date.now(): the clock is read by isCool only and never runs backwards
Instants == {1, RATE_LIMIT_MS, RATE_LIMIT_MS + 1}
\* the readings of the runs with interleaved handlers: within one window
RaceInstants == {1}
\* the readings of the runs of the edit session: within a window and after it
ModInstants == {1, RATE_LIMIT_MS + 1}
\* the text commands of the moderator
Commands == {"/stats", "/ban", "/unban"}
\* the readings and recorded timestamps isCool is tried on
RateTimes == {0, 1, RATE_LIMIT_MS, RATE_LIMIT_MS + 1, RATE_LIMIT_MS + 2}

VARIABLES
  pending,    \* const pending = new Map(): key -> {type, fileId, caption, voiceText}
  cooldown,   \* const cooldown = new Map(): identity -> timestamp
  banned,     \* const banned = new Set()
  stats,      \* const stats = {total, published, rejected}
  awaitEdit,  \* bot.ctx.awaitEdit: NoSession (undefined) or {key, chatId, msgId}
  procs,      \* the handlers suspended at an await (a bag: two may be alike)
  now,        \* the last reading of Date.now()
  msgCount,   \* messages received so far from each identity (message ids of its chat)
  channel,    \* what the public channel has received, in order, with the key it came from
  accepted,   \* the messages the gate let through: key -> what the sender sent
  notified,   \* keys of the messages with controls the moderator has received
  rejLog,     \* per key, how many times reject counted it
  failLog,    \* keys whose channel delivery has failed at least once
  editLog,    \* the moderator's use of edit: activated on a key, then the next text sent
  answered,   \* the last callback query and the answer it got (kept when answered.on)
  sttCall     \* the last call of stt: the provider's behaviour and what stt returned (kept when sttCall.on)

vars == <<pending, cooldown, banned, stats, awaitEdit, procs, now, msgCount,
          channel, accepted, notified, rejLog, failLog, editLog, answered, sttCall>>

(* ------------------------------ helpers -------------------------------- *)
\* Map.prototype.set / delete / has
MapSet(map, k, v) == [x \in (DOMAIN map) \cup {k} |-> IF x = k THEN v ELSE map[x]]
MapDelete(map, k) == [x \in (DOMAIN map) \ {k} |-> map[x]]
MapHas(map, k) == k \in DOMAIN map
EmptyMap == [x \in {} |-> Null]

\* handlers suspended at an await
Running == BagToSet(procs)
InFlight == BagCardinality(procs)
Suspend(p) == procs (+) SetToBag({p})
Resume(p) == procs (-) SetToBag({p})
NoKey == Key(0, 0)
\* bot.ctx.awaitEdit when it is not set
NoSession == [key |-> NoKey, chatId |-> 0, msgId |-> NoKey]

\* the moderator has not used edit (prev: the key of the session an edit
\* replaced, msg: the key of the text message sent next, both kept when hist)
NoEdit(hist) == [phase |-> "none", key |-> NoKey, text |-> Null, live |-> FALSE,
                 hist |-> hist, prev |-> NoKey, msg |-> NoKey]
\* the logs when nothing is logged (on: whether the run keeps the log)
NoAnswer(on) == [on |-> on, actor |-> 0, action |-> Null, key |-> NoKey, answer |-> Null]
NoCall(on) == [on |-> on, prov |-> [failAt |-> 0, parsedAt |-> 0, content |-> Null],
               ret |-> Null, polls |-> 0]
Answer(u, action, k, a) ==
  IF answered.on THEN [on |-> TRUE, actor |-> u, action |-> action, key |-> k, answer |-> a]
  ELSE answered

\* variant of isAdmin: every identity passes
isAdminAny(id) == id \in Users

isAdmin(id) == id = adminId

\* variant of isCool: a denial refreshes the recorded timestamp
isCoolResets(id, t) ==
  LET had == MapHas(cooldown, id)
      prev == IF had THEN cooldown[id] ELSE 0
  IN [ret |-> ~(had /\ prev # 0 /\ t - prev < RATE_LIMIT_MS),
      cooldown |-> MapSet(cooldown, id, t)]

\* variant of isCool: the window is closed at its last millisecond too (<=)
isCoolStrict(id, t) ==
  LET had == MapHas(cooldown, id)
      prev == IF had THEN cooldown[id] ELSE 0
  IN IF had /\ prev # 0 /\ t - prev <= RATE_LIMIT_MS
       THEN [ret |-> FALSE, cooldown |-> cooldown]
       ELSE [ret |-> TRUE, cooldown |-> MapSet(cooldown, id, t)]

\* isCool(id) when Date.now() reads t: the answer and the cooldown map it leaves
\* (last && ...: a recorded 0 counts as no record)
isCool(id, t) ==
  LET had == MapHas(cooldown, id)
      prev == IF had THEN cooldown[id] ELSE 0
  IN IF had /\ prev # 0 /\ t - prev < RATE_LIMIT_MS
       THEN [ret |-> FALSE, cooldown |-> cooldown]
       ELSE [ret |-> TRUE, cooldown |-> MapSet(cooldown, id, t)]

(* ------------------------- Telegraf dispatch --------------------------- *)
\* The middleware in the order webhook.js registers it.  An update goes down
\* the list; bot.use passes a message on with next(), every other handler
\* that matches takes the update and calls no next().
Middleware == <<"start", "gate", "text", "photo", "video", "document", "voice",
                "pub", "rej", "edit", "text_edit", "stats", "ban", "unban">>

MsgUpdate(from, mtype, text) ==
  [kind |-> "message", from |-> from, mtype |-> mtype, text |-> text, data |-> Null]
CbUpdate(from, data) ==
  [kind |-> "callback_query", from |-> from, mtype |-> Null, text |-> Null, data |-> data]

Matches(h, upd) ==
  LET isText == upd.kind = "message" /\ upd.mtype = "text"
  IN CASE h = "start"     -> isText /\ upd.text = "/start"
       [] h = "gate"      -> TRUE
       [] h = "text"      -> isText
       [] h = "text_edit" -> isText
       [] h = "stats"     -> isText /\ upd.text = "/stats"
       [] h = "ban"       -> isText /\ upd.text = "/ban"
       [] h = "unban"     -> isText /\ upd.text = "/unban"
       [] h \in {"photo", "video", "document", "voice"} ->
            upd.kind = "message" /\ upd.mtype = h
       [] h \in {"pub", "rej", "edit"} ->
            upd.kind = "callback_query" /\ upd.data = h
       [] OTHER -> FALSE

\* the handler that ends up with the update (text_edit, stats, ban and unban
\* end up with none: the first text handler is ahead of them, so the
\* specifications below have no action for them)
Route(upd) ==
  LET hits == {i \in 1..Len(Middleware) :
                 Middleware[i] # "gate" /\ Matches(Middleware[i], upd)}
  IN IF hits = {} THEN "none"
     ELSE Middleware[CHOOSE i \in hits : \A j \in hits : i <= j]

(* ---------------------------- speech to text --------------------------- *)
\* the requests stt makes before it polls, in order; the polls follow them
Requests == <<"download", "pre-sign", "upload", "file", "parse_process">>
\* the number, among the requests of one call, of poll i (i from 0)
PollRequest(i) == Len(Requests) + 1 + i

\* What the provider does on one call: failAt > 0 is the number of the request
\* that throws (a request after the last one made throws nothing); parsedAt is
\* the first poll that reports 'parsed', content its parsed_content.
Providers ==
  { [failAt |-> 0, parsedAt |-> 0, content |-> "speech"],
    [failAt |-> 0, parsedAt |-> POLL_ATTEMPTS, content |-> "speech"],
    [failAt |-> 3, parsedAt |-> 0, content |-> "speech"] }

\* every behaviour of the provider: any request may throw, 'parsed' may come at
\* any poll or never, parsed_content may be a text, empty or missing
AllProviders ==
  [failAt : 0..PollRequest(POLL_ATTEMPTS - 1), parsedAt : 0..POLL_ATTEMPTS,
   content : {"speech", "", Null}]

\* an exception on its way out of the try block
Thrown == "THROWN"

\* the polling loop from attempt i: the value of text after it, or Thrown
RECURSIVE PollLoop(_, _)
PollLoop(prov, i) ==
  IF i >= POLL_ATTEMPTS THEN ""
  ELSE IF prov.failAt = PollRequest(i) THEN Thrown
  ELSE IF prov.parsedAt = i
         THEN (IF Falsy(prov.content) THEN "<empty>" ELSE prov.content)
         ELSE PollLoop(prov, i + 1)

\* the polls the loop makes from attempt i on
RECURSIVE Polls(_, _)
Polls(prov, i) ==
  IF i >= POLL_ATTEMPTS THEN 0
  ELSE IF prov.failAt = PollRequest(i) \/ prov.parsedAt = i THEN 1
  ELSE 1 + Polls(prov, i + 1)

\* variant of stt: the value of text is returned as it is (no || fallback)
sttNoFallback(prov) ==
  IF prov.failAt \in 1..Len(Requests) THEN "<stt error>"
  ELSE LET text == PollLoop(prov, 0)
       IN IF text = Thrown THEN "<stt error>" ELSE text

\* variant of stt: the polling loop runs outside the try block
sttUncaught(prov) ==
  IF prov.failAt \in 1..Len(Requests) THEN "<stt error>"
  ELSE LET text == PollLoop(prov, 0)
       IN IF Falsy(text) THEN "<not recognized>" ELSE text

\* stt(fileLink): what it returns when the provider behaves as prov
stt(prov) ==
  IF prov.failAt \in 1..Len(Requests) THEN "<stt error>"
  ELSE LET text == PollLoop(prov, 0)
       IN IF text = Thrown THEN "<stt error>"
          ELSE IF Falsy(text) THEN "<not recognized>" ELSE text

\* the polls of one call of stt
sttPolls(prov) == IF prov.failAt \in 1..Len(Requests) THEN 0 ELSE Polls(prov, 0)

(* ------------------------------ intake --------------------------------- *)
\* bot.use: the ban and rate-limit gate every message passes first
Gate(id, t) ==
  IF id \in banned THEN "drop"
  ELSE IF ~isCool(id, t).ret THEN "deny"
  ELSE "pass"

\* what the gate answers the sender
GateAnswer(id, t) ==
  CASE Gate(id, t) = "deny" -> "wait 5 s"
    [] OTHER -> Null

\* messages received so far
RECURSIVE SumOver(_, _)
SumOver(f, S) == IF S = {} THEN 0
                 ELSE LET x == CHOOSE y \in S : TRUE IN f[x] + SumOver(f, S \ {x})
Received == SumOver(msgCount, Users)

\* the handler of a message, suspended at its first await
Handler(pc, who, key, type, fileId, caption, voiceText, body) ==
  [pc |-> pc, who |-> who, key |-> key, type |-> type, fileId |-> fileId,
   caption |-> caption, voiceText |-> voiceText, body |-> body]

\* variant of MessageFrom: a text message that passes the gate closes the edit session
MessageFromCloses(lim, u, mtype, content, t) ==
  LET m == msgCount[u] + 1
      upd == MsgUpdate(u, mtype, IF mtype = "text" THEN content ELSE Null)
      g == Gate(u, t)
      h == Handler(IF mtype = "voice" THEN "stt" ELSE "reply", u, Key(m, u), mtype,
                   IF mtype = "text" THEN Null ELSE "file", content, Null, Null)
  IN /\ Received < MaxMsgs
     /\ Route(upd) \in Types
     /\ g = "pass" => InFlight < lim
     /\ msgCount' = [msgCount EXCEPT ![u] = m]
     /\ t >= now
     /\ now' = IF g = "drop" THEN now ELSE t
     /\ cooldown' = IF g = "drop" THEN cooldown ELSE isCool(u, t).cooldown
     /\ procs' = IF g = "pass" THEN Suspend(h) ELSE procs
     /\ editLog' = IF g = "pass" /\ isAdmin(u) /\ mtype = "text" /\ editLog.phase = "armed"
                   THEN [editLog EXCEPT !.phase = "sent", !.text = content,
                                        !.live = MapHas(pending, editLog.key),
                                        !.msg = IF editLog.hist THEN Key(m, u) ELSE NoKey]
                   ELSE editLog
     /\ accepted' = IF g = "pass"
                    THEN MapSet(accepted, Key(m, u),
                                [type |-> mtype, content |-> content, at |-> t])
                    ELSE accepted
     /\ awaitEdit' = IF g = "pass" /\ mtype = "text" THEN NoSession ELSE awaitEdit
     /\ UNCHANGED <<pending, banned, stats, channel, notified, rejLog, failLog, answered, sttCall>>

\* A message arrives: the gate, and for a message it lets through the start of
\* the handler Route gives it, up to its first await (ctx.reply).
MessageFrom(lim, u, mtype, content, t) ==
  LET m == msgCount[u] + 1
      upd == MsgUpdate(u, mtype, IF mtype = "text" THEN content ELSE Null)
      g == Gate(u, t)
      h == Handler(IF mtype = "voice" THEN "stt" ELSE "reply", u, Key(m, u), mtype,
                   IF mtype = "text" THEN Null ELSE "file", content, Null, Null)
  IN /\ Received < MaxMsgs
     /\ Route(upd) \in Types
     /\ g = "pass" => InFlight < lim
     /\ msgCount' = [msgCount EXCEPT ![u] = m]
     /\ t >= now
     /\ now' = IF g = "drop" THEN now ELSE t
     /\ cooldown' = IF g = "drop" THEN cooldown ELSE isCool(u, t).cooldown
     /\ procs' = IF g = "pass" THEN Suspend(h) ELSE procs
     /\ editLog' = IF g = "pass" /\ isAdmin(u) /\ mtype = "text" /\ editLog.phase = "armed"
                   THEN [editLog EXCEPT !.phase = "sent", !.text = content,
                                        !.live = MapHas(pending, editLog.key),
                                        !.msg = IF editLog.hist THEN Key(m, u) ELSE NoKey]
                   ELSE editLog
     /\ accepted' = IF g = "pass"
                    THEN MapSet(accepted, Key(m, u),
                                [type |-> mtype, content |-> content, at |-> t])
                    ELSE accepted
     /\ UNCHANGED <<pending, banned, stats, awaitEdit, channel, notified, rejLog, failLog, answered, sttCall>>

Message(lim, T) ==
  \E u \in Users, mtype \in Types, t \in T :
    \E content \in (IF mtype = "text" THEN Texts ELSE Captions) :
      MessageFrom(lim, u, mtype, content, t)

\* forwardToAdmin: the reply to the sender has answered and the message with the
\* controls reaches the moderator (text, photo, video, document)
Notify ==
  \E h \in Running :
    /\ h.pc = "reply"
    /\ procs' = Resume(h) (+) SetToBag({[h EXCEPT !.pc = "store"]})
    /\ notified' = notified \cup {h.key}
    /\ UNCHANGED <<pending, cooldown, banned, stats, awaitEdit, now, msgCount,
                   channel, accepted, rejLog, failLog, editLog, answered, sttCall>>

\* voice: getFileLink, stt and the reply to the sender have answered, and the
\* message with the controls reaches the moderator; sendVoice is awaited next.
\* Nothing shared is read or written between these awaits, so they are one step.
Transcribed(P) ==
  \E h \in Running, prov \in P :
    /\ h.pc = "stt"
    /\ procs' = Resume(h) (+) SetToBag({[h EXCEPT !.pc = "voice", !.voiceText = stt(prov)]})
    /\ notified' = notified \cup {h.key}
    /\ sttCall' = IF sttCall.on
                    THEN [on |-> TRUE, prov |-> prov, ret |-> stt(prov), polls |-> sttPolls(prov)]
                    ELSE sttCall
    /\ UNCHANGED <<pending, cooldown, banned, stats, awaitEdit, now, msgCount,
                   channel, accepted, rejLog, failLog, editLog, answered>>

\* forwardToAdmin, voice: sendVoice has answered
VoiceSent ==
  \E h \in Running :
    /\ h.pc = "voice"
    /\ procs' = Resume(h) (+) SetToBag({[h EXCEPT !.pc = "store"]})
    /\ UNCHANGED <<pending, cooldown, banned, stats, awaitEdit, now, msgCount,
                   channel, accepted, notified, rejLog, failLog, editLog, answered, sttCall>>

\* an awaited Telegram call of the intake rejects: the handler ends there
Abort ==
  \E h \in Running :
    /\ h.pc \in {"stt", "reply", "voice"}
    /\ procs' = Resume(h)
    /\ UNCHANGED <<pending, cooldown, banned, stats, awaitEdit, now, msgCount,
                   channel, accepted, notified, rejLog, failLog, editLog, answered, sttCall>>

\* variant of Store: pending.set waits until no transcription is under way
StoreAfterStt ==
  \E h \in Running :
    /\ h.pc = "store"
    /\ \A g \in Running : g.pc # "stt"
    /\ pending' = MapSet(pending, h.key,
                         [type |-> h.type, fileId |-> h.fileId,
                          caption |-> h.caption, voiceText |-> h.voiceText])
    /\ procs' = Resume(h)
    /\ UNCHANGED <<cooldown, banned, stats, awaitEdit, now, msgCount,
                   channel, accepted, notified, rejLog, failLog, editLog, answered, sttCall>>

\* forwardToAdmin: pending.set(key, {type, fileId, caption, voiceText})
Store ==
  \E h \in Running :
    /\ h.pc = "store"
    /\ pending' = MapSet(pending, h.key,
                         [type |-> h.type, fileId |-> h.fileId,
                          caption |-> h.caption, voiceText |-> h.voiceText])
    /\ procs' = Resume(h)
    /\ UNCHANGED <<cooldown, banned, stats, awaitEdit, now, msgCount,
                   channel, accepted, notified, rejLog, failLog, editLog, answered, sttCall>>

(* ------------------------- moderator controls -------------------------- *)
\* variant of PubContent: a voice submission is published with its caption
PubContentCaption(p) ==
  CASE p.type = "text"  -> [media |-> Null,
                            text |-> IF Falsy(p.voiceText) THEN p.caption ELSE p.voiceText]
    [] p.type = "voice" -> [media |-> Null, text |-> p.caption]
    [] OTHER            -> [media |-> p.fileId, text |-> p.caption]

\* what pub_ sends for a stored submission: the media it attaches, the text it carries
PubContent(p) ==
  CASE p.type = "text"  -> [media |-> Null,
                            text |-> IF Falsy(p.voiceText) THEN p.caption ELSE p.voiceText]
    [] p.type = "voice" -> [media |-> Null, text |-> p.voiceText]
    [] OTHER            -> [media |-> p.fileId, text |-> p.caption]

\* the keys of the buttons the moderator can press
Buttons == notified \cup {OldKey}

\* pub_: what the callback is answered before anything is sent
ApproveAnswer(u, k) ==
  IF ~isAdmin(u) THEN "no rights"
  ELSE IF ~MapHas(pending, k) THEN "stale"
  ELSE "deliver"

\* bot.action(/^pub_(.+)/) up to the await of the channel delivery
ApproveBy(lim, u, k) ==
  LET a == ApproveAnswer(u, k)
  IN /\ Route(CbUpdate(u, "pub")) = "pub"
     /\ a = "deliver" => InFlight < lim
     /\ procs' = IF a = "deliver"
                   THEN Suspend(Handler("deliver", u, k, pending[k].type,
                                        PubContent(pending[k]).media, Null, Null,
                                        PubContent(pending[k]).text))
                   ELSE procs
     /\ answered' = Answer(u, "pub", k, a)
     /\ UNCHANGED <<pending, cooldown, banned, stats, awaitEdit, now, msgCount,
                    channel, accepted, notified, rejLog, failLog, editLog, sttCall>>

Approve(lim) == \E u \in Users, k \in Buttons : ApproveBy(lim, u, k)

\* variant of Delivered: pending.delete is left out
DeliveredKeepsKey ==
  \E h \in Running :
    /\ h.pc = "deliver"
    /\ channel' = Append(channel, [key |-> h.key, media |-> h.fileId, text |-> h.body])
    /\ stats' = [stats EXCEPT !.published = @ + 1, !.total = @ + 1]
    /\ procs' = Resume(h)
    /\ UNCHANGED <<pending, cooldown, banned, awaitEdit, now, msgCount, accepted, notified,
                   rejLog, failLog, editLog, answered, sttCall>>

\* variant of DeliverFailed: stats.total++ runs whether or not the delivery threw
DeliverFailedCounts ==
  \E h \in Running :
    /\ h.pc = "deliver"
    /\ procs' = Resume(h)
    /\ failLog' = failLog \cup {h.key}
    /\ stats' = [stats EXCEPT !.total = @ + 1]
    /\ UNCHANGED <<pending, cooldown, banned, awaitEdit, now, msgCount,
                   channel, accepted, notified, rejLog, editLog, answered, sttCall>>

\* variant of DeliverFailed: stats.published++ runs before the delivery is awaited
DeliverFailedPublished ==
  \E h \in Running :
    /\ h.pc = "deliver"
    /\ procs' = Resume(h)
    /\ failLog' = failLog \cup {h.key}
    /\ stats' = [stats EXCEPT !.published = @ + 1]
    /\ UNCHANGED <<pending, cooldown, banned, awaitEdit, now, msgCount,
                   channel, accepted, notified, rejLog, editLog, answered, sttCall>>

\* the channel delivery succeeded: stats.published++, pending.delete, stats.total++
Delivered ==
  \E h \in Running :
    /\ h.pc = "deliver"
    /\ channel' = Append(channel, [key |-> h.key, media |-> h.fileId, text |-> h.body])
    /\ stats' = [stats EXCEPT !.published = @ + 1, !.total = @ + 1]
    /\ pending' = MapDelete(pending, h.key)
    /\ procs' = Resume(h)
    /\ UNCHANGED <<cooldown, banned, awaitEdit, now, msgCount, accepted, notified,
                   rejLog, failLog, editLog, answered, sttCall>>

\* the channel delivery threw: catch, answer the publication error
DeliverFailed ==
  \E h \in Running :
    /\ h.pc = "deliver"
    /\ procs' = Resume(h)
    /\ failLog' = failLog \cup {h.key}
    /\ UNCHANGED <<pending, cooldown, banned, stats, awaitEdit, now, msgCount,
                   channel, accepted, notified, rejLog, editLog, answered, sttCall>>

\* rej_: what the callback is answered
RejectAnswer(u, k) == IF ~isAdmin(u) THEN "no rights" ELSE "rejected"

\* variant of RejectBy: a reject also puts the sender of the submission on the ban list
RejectByBans(u, k) ==
  LET a == RejectAnswer(u, k)
  IN /\ Route(CbUpdate(u, "rej")) = "rej"
     /\ a = "rejected" => stats.rejected < MaxRejected
     /\ pending' = IF a = "rejected" THEN MapDelete(pending, k) ELSE pending
     /\ stats' = IF a = "rejected" THEN [stats EXCEPT !.rejected = @ + 1] ELSE stats
     /\ rejLog' = IF a = "rejected" THEN [rejLog EXCEPT ![k] = @ + 1] ELSE rejLog
     /\ banned' = IF a = "rejected" THEN banned \cup {k[2]} ELSE banned
     /\ answered' = Answer(u, "rej", k, a)
     /\ UNCHANGED <<cooldown, awaitEdit, procs, now, msgCount,
                    channel, accepted, notified, failLog, editLog, sttCall>>

\* variant of RejectBy: a reject raises the total counter as well
RejectByCountsTotal(u, k) ==
  LET a == RejectAnswer(u, k)
  IN /\ Route(CbUpdate(u, "rej")) = "rej"
     /\ a = "rejected" => stats.rejected < MaxRejected
     /\ pending' = IF a = "rejected" THEN MapDelete(pending, k) ELSE pending
     /\ stats' = IF a = "rejected" THEN [stats EXCEPT !.rejected = @ + 1, !.total = @ + 1]
                 ELSE stats
     /\ rejLog' = IF a = "rejected" THEN [rejLog EXCEPT ![k] = @ + 1] ELSE rejLog
     /\ answered' = Answer(u, "rej", k, a)
     /\ UNCHANGED <<cooldown, banned, awaitEdit, procs, now, msgCount,
                    channel, accepted, notified, failLog, editLog, sttCall>>

\* bot.action(/^rej_(.+)/)
RejectBy(u, k) ==
  LET a == RejectAnswer(u, k)
  IN /\ Route(CbUpdate(u, "rej")) = "rej"
     /\ a = "rejected" => stats.rejected < MaxRejected
     /\ pending' = IF a = "rejected" THEN MapDelete(pending, k) ELSE pending
     /\ stats' = IF a = "rejected" THEN [stats EXCEPT !.rejected = @ + 1] ELSE stats
     /\ rejLog' = IF a = "rejected" THEN [rejLog EXCEPT ![k] = @ + 1] ELSE rejLog
     /\ answered' = Answer(u, "rej", k, a)
     /\ UNCHANGED <<cooldown, banned, awaitEdit, procs, now, msgCount,
                    channel, accepted, notified, failLog, editLog, sttCall>>

Reject == \E u \in Users, k \in Buttons : RejectBy(u, k)

\* edit_: what the callback is answered
EditAnswer(u, k) ==
  IF ~isAdmin(u) THEN "no rights"
  ELSE IF ~MapHas(pending, k) THEN "stale"
  ELSE "send the corrected text"

\* bot.action(/^edit_(.+)/)
EditBy(u, k) ==
  LET ok == EditAnswer(u, k) = "send the corrected text"
  IN /\ Route(CbUpdate(u, "edit")) = "edit"
     /\ awaitEdit' = IF ok THEN [key |-> k, chatId |-> u, msgId |-> k] ELSE awaitEdit
     /\ editLog' = IF ok THEN [phase |-> "armed", key |-> k, text |-> Null, live |-> TRUE,
                                 hist |-> editLog.hist, msg |-> NoKey,
                                 prev |-> IF editLog.hist /\ awaitEdit.key # k
                                            THEN awaitEdit.key ELSE NoKey]
                   ELSE editLog
     /\ answered' = Answer(u, "edit", k, EditAnswer(u, k))
     /\ UNCHANGED <<pending, cooldown, banned, stats, procs, now, msgCount,
                    channel, accepted, notified, rejLog, failLog, sttCall>>

Edit == \E u \in Users, k \in Buttons : EditBy(u, k)

(* --------------------------- specifications ---------------------------- *)
Init ==
  /\ pending = EmptyMap
  /\ cooldown = EmptyMap
  /\ banned = {}
  /\ stats = [total |-> 0, published |-> 0, rejected |-> 0]
  /\ awaitEdit = NoSession
  /\ procs = EmptyBag
  /\ now = 1
  /\ msgCount = [u \in Users |-> 0]
  /\ channel = <<>>
  /\ accepted = EmptyMap
  /\ notified = {}
  /\ rejLog = [k \in AllKeys |-> 0]
  /\ failLog = {}
  /\ editLog = NoEdit(FALSE)
  /\ answered = NoAnswer(FALSE)
  /\ sttCall = NoCall(FALSE)

\* handlers of different updates interleave at their awaits
Next ==
  \/ Received < MaxBusy /\ Message(MaxConc, RaceInstants)
  \/ Notify
  \/ Transcribed(Providers)
  \/ VoiceSent
  \/ Abort
  \/ Store
  \/ Approve(MaxConc)
  \/ Delivered
  \/ DeliverFailed
  \/ Reject
  \/ Edit

Spec == Init /\ [][Next]_vars

\* a sequential run: an update is taken up only when no handler is suspended
SeqNext ==
  \/ Received < MaxBusy /\ Message(1, Instants)
  \/ Notify
  \/ Transcribed(Providers)
  \/ VoiceSent
  \/ Abort
  \/ Store
  \/ Approve(1)
  \/ Delivered
  \/ DeliverFailed
  \/ InFlight = 0 /\ Reject
  \/ InFlight = 0 /\ Edit

SeqSpec == Init /\ [][SeqNext]_vars

\* the rate limiter on its own: isCool is tried, through the gate, on every
\* recorded timestamp and every later reading of the clock
RateInit ==
  /\ now \in RateTimes
  /\ cooldown \in UNION {[S -> {t \in RateTimes : t <= now}] : S \in SUBSET Users}
  /\ pending = EmptyMap
  /\ banned = {}
  /\ stats = [total |-> 0, published |-> 0, rejected |-> 0]
  /\ awaitEdit = NoSession
  /\ procs = EmptyBag
  /\ msgCount = [u \in Users |-> 0]
  /\ channel = <<>>
  /\ accepted = EmptyMap
  /\ notified = {}
  /\ rejLog = [k \in AllKeys |-> 0]
  /\ failLog = {}
  /\ editLog = NoEdit(FALSE)
  /\ answered = NoAnswer(FALSE)
  /\ sttCall = NoCall(FALSE)

RateNext ==
  \/ \E u \in Users, t \in RateTimes : MessageFrom(1, u, "text", "hello", t)
  \/ Abort

RateSpec == RateInit /\ [][RateNext]_vars

\* the moderator's controls and commands: text messages (commands among them)
\* and callback queries, one update at a time, every callback answer logged
ModInit ==
  /\ pending = EmptyMap
  /\ cooldown = EmptyMap
  /\ banned = {}
  /\ stats = [total |-> 0, published |-> 0, rejected |-> 0]
  /\ awaitEdit = NoSession
  /\ procs = EmptyBag
  /\ now = 1
  /\ msgCount = [u \in Users |-> 0]
  /\ channel = <<>>
  /\ accepted = EmptyMap
  /\ notified = {}
  /\ rejLog = [k \in AllKeys |-> 0]
  /\ failLog = {}
  /\ editLog = NoEdit(FALSE)
  /\ answered = NoAnswer(TRUE)
  /\ sttCall = NoCall(FALSE)

ModNext ==
  \/ \E u \in Users, c \in Commands \cup {"hello"}, t \in RaceInstants :
       Received < MaxBusy /\ MessageFrom(1, u, "text", c, t)
  \/ Notify
  \/ Abort
  \/ Store
  \/ Approve(1)
  \/ Delivered
  \/ DeliverFailed
  \/ InFlight = 0 /\ Reject
  \/ InFlight = 0 /\ Edit

ModSpec == ModInit /\ [][ModNext]_vars

\* the edit session: text messages and callback queries, one update at a time,
\* the session an edit replaces remembered
EditInit ==
  /\ pending = EmptyMap
  /\ cooldown = EmptyMap
  /\ banned = {}
  /\ stats = [total |-> 0, published |-> 0, rejected |-> 0]
  /\ awaitEdit = NoSession
  /\ procs = EmptyBag
  /\ now = 1
  /\ msgCount = [u \in Users |-> 0]
  /\ channel = <<>>
  /\ accepted = EmptyMap
  /\ notified = {}
  /\ rejLog = [k \in AllKeys |-> 0]
  /\ failLog = {}
  /\ editLog = NoEdit(TRUE)
  /\ answered = NoAnswer(FALSE)
  /\ sttCall = NoCall(FALSE)

EditNext ==
  \/ \E u \in Users, t \in ModInstants : MessageFrom(1, u, "text", "fixed", t)
  \/ Notify
  \/ Abort
  \/ Store
  \/ Approve(1)
  \/ Delivered
  \/ DeliverFailed
  \/ InFlight = 0 /\ Reject
  \/ InFlight = 0 /\ Edit

EditSpec == EditInit /\ [][EditNext]_vars

\* stt on its own: one voice message, the provider behaving in every way
SttInit ==
  /\ pending = EmptyMap
  /\ cooldown = EmptyMap
  /\ banned = {}
  /\ stats = [total |-> 0, published |-> 0, rejected |-> 0]
  /\ awaitEdit = NoSession
  /\ procs = EmptyBag
  /\ now = 1
  /\ msgCount = [u \in Users |-> 0]
  /\ channel = <<>>
  /\ accepted = EmptyMap
  /\ notified = {}
  /\ rejLog = [k \in AllKeys |-> 0]
  /\ failLog = {}
  /\ editLog = NoEdit(FALSE)
  /\ answered = NoAnswer(FALSE)
  /\ sttCall = NoCall(TRUE)

SttNext ==
  \/ \E u \in Users, c \in Captions :
       Received = 0 /\ MessageFrom(1, u, "voice", c, now)
  \/ Transcribed(AllProviders)
  \/ VoiceSent
  \/ Abort
  \/ Store

SttSpec == SttInit /\ [][SttNext]_vars

\* the same with every awaited Telegram call answering: a handler suspended at
\* an await is resumed when the call it waits for has answered
SttLiveNext ==
  \/ \E u \in Users, c \in Captions :
       Received = 0 /\ MessageFrom(1, u, "voice", c, now)
  \/ Transcribed(AllProviders)
  \/ VoiceSent
  \/ Store

SttLiveSpec ==
  /\ SttInit
  /\ [][SttLiveNext]_vars
  /\ WF_vars(Transcribed(AllProviders))
  /\ WF_vars(VoiceSent)
  /\ WF_vars(Store)

(* ------------------------------- claims -------------------------------- *)
\* how often the channel has received the submission of key k
Deliveries(k) == Cardinality({i \in 1..Len(channel) : channel[i].key = k})
\* how many terminal transitions (publish, reject) have been counted for key k
Terminals(k) == Deliveries(k) + rejLog[k]
\* the entry the channel received in this step, if it received one
Published == Len(channel') = Len(channel) + 1
NewEntry == channel'[Len(channel')]
\* this step is the gate taking a message of u
MessageOf(u) == msgCount'[u] = msgCount[u] + 1
Sentinels == {"<stt error>", "<not recognized>", "<empty>"}

\* C1: whatever the interleaving of the handlers, the channel receives the
\* submission of a key at most once.
C1_AtMostOncePerKey == \A k \in AllKeys : Deliveries(k) <= 1

\* C2: for every key the moderator has controls for, at most one terminal
\* transition (a delivery with the published counter, or a rejected count) is
\* ever performed; a second terminal action on the key is stale and counts nothing.
C2_OneTerminalPerKey == \A k \in notified : Terminals(k) <= 1

\* C3: in a sequential run, a text message of u with message id m that the gate
\* let through and whose handler has run to its end is stored under Key(m, u)
\* with the text as sent; an approve sends exactly that text to the channel,
\* removes the key and adds one to the published counter; from then on an
\* approve of the key is answered stale and nothing more is delivered for it.
C3_TextLifecycle ==
  /\ \A k \in DOMAIN accepted :
       (accepted[k].type = "text" /\ k \in notified /\ InFlight = 0 /\ Terminals(k) = 0)
         => /\ MapHas(pending, k)
            /\ pending[k] = [type |-> "text", fileId |-> Null,
                             caption |-> accepted[k].content, voiceText |-> Null]
  /\ \A i \in 1..Len(channel) :
       accepted[channel[i].key].type = "text"
         => /\ channel[i].text = accepted[channel[i].key].content
            /\ channel[i].media = Null
            /\ Deliveries(channel[i].key) = 1
            /\ ~MapHas(pending, channel[i].key)
            /\ ApproveAnswer(adminId, channel[i].key) = "stale"
  /\ stats.published = Len(channel)

C3_Witness ==
  \E k \in DOMAIN accepted :
    /\ accepted[k].type = "text"
    /\ Deliveries(k) = 1
    /\ stats.published = 1
    /\ ~MapHas(pending, k)
    /\ InFlight = 0

\* C4: a step in which the channel delivery of an approve fails leaves the
\* store (the key and its content) and every counter as they were, and the key,
\* if still stored, can be approved again.
C4_FailedDeliveryKeeps ==
  [][ \A h \in Running :
        (h.pc = "deliver" /\ procs' = Resume(h) /\ ~Published)
          => /\ pending' = pending
             /\ stats' = stats
             /\ h.key \in failLog'
             /\ MapHas(pending, h.key) => (ApproveAnswer(adminId, h.key) = "deliver")'
    ]_vars

\* a delivery failed for a stored key, a later approve of the key was delivered
C4_Witness ==
  \E k \in failLog : Deliveries(k) = 1 /\ stats.published = 1 /\ ~MapHas(pending, k)

\* the ban list of this program is empty in every state: /ban never reaches its handler
BanListEmpty == banned = {}

\* C6: a message of an identity that arrives inside the cooldown window of its
\* last accepted message is denied: it is answered with the cooldown notice,
\* starts no handler, stores and notifies nothing, and leaves the recorded
\* timestamp as it was; a denied message is never stored or notified later.
C6_DeniedInsideWindow ==
  [][ /\ \A u \in Users :
           (MessageOf(u) /\ MapHas(cooldown, u) /\ u \notin banned
              /\ now' - cooldown[u] < RATE_LIMIT_MS)
             => /\ GateAnswer(u, now') = "wait 5 s"
                /\ ~MapHas(accepted', Key(msgCount'[u], u))
                /\ cooldown' = cooldown
                /\ procs' = procs
                /\ pending' = pending
                /\ notified' = notified
      /\ \A u \in Users : \A m \in 1..msgCount'[u] :
           ~MapHas(accepted', Key(m, u))
             => ~MapHas(pending', Key(m, u)) /\ Key(m, u) \notin notified'
    ]_vars

\* the first message of u was accepted, its second came later inside the window
C6_Witness ==
  \E u \in Users :
    /\ msgCount[u] = 2
    /\ MapHas(accepted, Key(1, u))
    /\ ~MapHas(accepted, Key(2, u))
    /\ cooldown[u] = accepted[Key(1, u)].at
    /\ now > cooldown[u]

\* what isCool decided in this step for the message of u, from the states around it
Passed(u) == MapHas(accepted', Key(msgCount'[u], u))
IsCoolFrame(u) ==
  /\ Passed(u) => cooldown' = MapSet(cooldown, u, now')
  /\ ~Passed(u) => cooldown' = cooldown

\* C7 as stated: isCool answers true and records now exactly when no timestamp
\* is recorded or now - recorded > 5000; otherwise false, nothing recorded.
C7_Original ==
  [][ \A u \in Users :
        MessageOf(u)
          => /\ Passed(u) <=> (~MapHas(cooldown, u) \/ now' - cooldown[u] > RATE_LIMIT_MS)
             /\ IsCoolFrame(u)
    ]_vars

\* C7 as amended: isCool answers true and records now exactly when no timestamp
\* is recorded, the recorded timestamp is 0, or now - recorded >= 5000;
\* otherwise it answers false and records nothing.
C7_Amended ==
  [][ \A u \in Users :
        MessageOf(u)
          => /\ Passed(u) <=> \/ ~MapHas(cooldown, u)
                              \/ cooldown[u] = 0
                              \/ now' - cooldown[u] >= RATE_LIMIT_MS
             /\ IsCoolFrame(u)
    ]_vars

\* a message accepted exactly one window after the accepted one before it
C7_Witness ==
  \E u \in Users :
    /\ MapHas(accepted, Key(1, u)) /\ MapHas(accepted, Key(2, u))
    /\ accepted[Key(1, u)].at # 0
    /\ accepted[Key(2, u)].at - accepted[Key(1, u)].at = RATE_LIMIT_MS
    /\ cooldown[u] = accepted[Key(2, u)].at

\* C8: when an approve is delivered for a stored submission whose transcript is
\* set, the channel receives the transcript as the text, whatever the kind.
C8_TranscriptPublished ==
  [][ Published
        => ((MapHas(pending, NewEntry.key) /\ ~Falsy(pending[NewEntry.key].voiceText))
              => NewEntry.text = pending[NewEntry.key].voiceText)
    ]_vars

\* a voice submission with a caption was published: the channel got the transcript
C8_Witness ==
  \E i \in 1..Len(channel) :
    /\ accepted[channel[i].key].type = "voice"
    /\ accepted[channel[i].key].content = "cap"
    /\ channel[i].text \in {"speech"} \cup Sentinels

\* C9: after edit was activated on a stored key and the moderator sent T as the
\* next text while the key was stored, what an approve of the key publishes is T.
C9_EditedTextPublished ==
  \A i \in 1..Len(channel) :
    (editLog.phase = "sent" /\ editLog.live /\ editLog.key = channel[i].key)
      => channel[i].text = editLog.text

\* C10: once the moderator has sent the next text after activating edit, no
\* edit session is open.
C10_SessionClosed == editLog.phase = "sent" => awaitEdit = NoSession

\* the provider reported 'parsed' at no poll of the last call, and no request threw
NeverParsed == /\ sttCall.ret # Null
               /\ sttCall.prov.failAt = 0
               /\ sttCall.prov.parsedAt >= POLL_ATTEMPTS
\* a voice submission is stored with the transcript x, its controls with the moderator
VoiceStoredWith(x) ==
  \E k \in DOMAIN pending :
    /\ pending[k].type = "voice"
    /\ pending[k].voiceText = x
    /\ k \in notified

\* C13: when the provider reports 'parsed' at no poll, stt returns the
\* not-recognized sentinel, the handler goes on with it as the transcript, and
\* (the Telegram calls answering) the submission gets stored with that
\* transcript, the controls for its key sent to the moderator.
C13_TimeoutStillStored ==
  /\ [](NeverParsed =>
          /\ sttCall.ret = "<not recognized>"
          /\ \A h \in Running : h.voiceText = "<not recognized>" /\ h.key \in notified
          /\ \A k \in DOMAIN pending : pending[k].voiceText = "<not recognized>")
  /\ (NeverParsed ~> VoiceStoredWith("<not recognized>"))

C13_Witness == NeverParsed /\ VoiceStoredWith("<not recognized>")

\* the request that throws in the last call is one stt got to: one of the
\* requests before the polls, or a poll not later than the one reporting 'parsed'
ThrewInCall ==
  /\ sttCall.prov.failAt > 0
  /\ sttCall.prov.failAt <= PollRequest(sttCall.prov.parsedAt)

\* C14: stt returns for every behaviour of the provider and lets no exception
\* out: a request that throws gives the transcription-failed sentinel, 'parsed'
\* at no poll gives the not-recognized sentinel after POLL_ATTEMPTS polls, no
\* call polls more than POLL_ATTEMPTS times, and the text returned is not empty.
C14_SttTotal ==
  sttCall.ret # Null
    => /\ sttCall.ret \in {"<stt error>", "<not recognized>", "<empty>", "speech"}
       /\ sttCall.polls <= POLL_ATTEMPTS
       /\ ThrewInCall => sttCall.ret = "<stt error>"
       /\ (~ThrewInCall /\ sttCall.prov.parsedAt >= POLL_ATTEMPTS)
            => sttCall.ret = "<not recognized>" /\ sttCall.polls = POLL_ATTEMPTS
       /\ (~ThrewInCall /\ sttCall.prov.parsedAt < POLL_ATTEMPTS)
            => /\ sttCall.ret = (IF Falsy(sttCall.prov.content) THEN "<empty>"
                                 ELSE sttCall.prov.content)
               /\ sttCall.polls = sttCall.prov.parsedAt + 1

\* the last of the polls threw: stt had polled POLL_ATTEMPTS times and returned the sentinel
C14_Witness ==
  /\ sttCall.prov.failAt = PollRequest(POLL_ATTEMPTS - 1)
  /\ sttCall.polls = POLL_ATTEMPTS
  /\ sttCall.ret = "<stt error>"

\* C15: published and rejected never decrease, and in every state total is
\* published + rejected.
C15_CountersConsistent ==
  /\ [][stats'.published >= stats.published /\ stats'.rejected >= stats.rejected]_vars
  /\ [](stats.total = stats.published + stats.rejected)

\* the accepted messages of the moderator that are text commands
ModeratorCommands ==
  {k \in DOMAIN accepted : k[2] = adminId /\ accepted[k].content \in Commands}

\* C17: a /stats, /ban or /unban of the moderator creates no pending
\* submission and sends no notification with controls.
C17_CommandsNotSubmitted ==
  \A k \in ModeratorCommands : ~MapHas(pending, k) /\ k \notin notified

\* this step is a /ban or /unban of the moderator passing the gate
ModeratorBanCommand ==
  /\ MessageOf(adminId)
  /\ Passed(adminId)
  /\ accepted'[Key(msgCount'[adminId], adminId)].content \in {"/ban", "/unban"}

\* C18: the ban list changes in no step other than a /ban or /unban of the
\* moderator: no intake, no callback and no command of another identity
\* changes it.
C18_BanListOnlyByModerator == [][banned' # banned => ModeratorBanCommand]_vars

\* another identity has sent /ban and it passed the gate, the moderator's reject
\* was the last callback answered, and the ban list is as it was
C18_Witness ==
  /\ \E k \in DOMAIN accepted : k[2] # adminId /\ accepted[k].content = "/ban"
  /\ answered.action = "rej" /\ answered.answer = "rejected"
  /\ banned = {}

\* C19: when edit is activated on k2 while a session for k1 is open, the session
\* refers to k2 only, and after the moderator's next text the transcript of k2
\* (if still stored) is that text and the submission under k1 is as it was.
C19_EditReplacesSession ==
  (editLog.phase = "sent" /\ editLog.live /\ editLog.prev # NoKey)
    => /\ awaitEdit.key # editLog.prev
       /\ MapHas(pending, editLog.key) => pending[editLog.key].voiceText = editLog.text
       /\ MapHas(pending, editLog.prev) => pending[editLog.prev].voiceText = Null

\* C20: whenever the moderator holds the controls for a key and no terminal
\* action on the key has completed, the key is in the pending store: an approve
\* or an edit of it is not answered stale.
C20_StoredBeforeControls ==
  \A k \in notified :
    Terminals(k) = 0
      => /\ MapHas(pending, k)
         /\ ApproveAnswer(adminId, k) = "deliver"
         /\ EditAnswer(adminId, k) = "send the corrected text"

\* this step is a callback query being answered (the log takes the new answer)
Answered == answered' # answered

\* C11: a callback (approve, reject, edit) of an actor who is not the moderator
\* is answered "no rights" and changes nothing: store, counters, ban list, edit
\* session and channel stay as they were and no delivery is started.
C11_NoRightsNothing ==
  [][ (Answered /\ answered'.actor # adminId)
        => /\ answered'.answer = "no rights"
           /\ UNCHANGED <<pending, stats, banned, awaitEdit, channel, procs>>
    ]_vars

\* the last callback was a reject by another identity on a stored key: still stored
C11_Witness ==
  /\ answered.actor \in Users \ {adminId}
  /\ answered.action = "rej"
  /\ answered.answer = "no rights"
  /\ MapHas(pending, answered.key)
  /\ stats.rejected = 0

\* C12: a callback of the moderator that names a key not in the store is
\* answered stale and changes no state: store, counters and edit session.
C12_StaleNothing ==
  [][ (Answered /\ answered'.actor = adminId /\ ~MapHas(pending, answered'.key))
        => /\ answered'.answer = "stale"
           /\ UNCHANGED <<pending, stats, awaitEdit>>
    ]_vars

\* C21: a reject of the moderator on a stored key is answered as a rejection,
\* removes exactly that key, raises the rejected counter by one and nothing
\* else: nothing is delivered or started, published and total stay, every other
\* stored submission stays as it was.
C21_RejectFrame ==
  [][ (Answered /\ answered'.actor = adminId /\ answered'.action = "rej"
         /\ MapHas(pending, answered'.key))
        => /\ answered'.answer = "rejected"
           /\ pending' = MapDelete(pending, answered'.key)
           /\ \A k \in DOMAIN pending \ {answered'.key} : pending'[k] = pending[k]
           /\ stats' = [stats EXCEPT !.rejected = @ + 1]
           /\ UNCHANGED <<channel, procs, banned, awaitEdit>>
    ]_vars

\* the moderator's reject of a stored key was the last callback: the key is
\* gone and counted once, another submission is still stored, nothing is published
C21_Witness ==
  /\ answered.actor = adminId /\ answered.action = "rej" /\ answered.answer = "rejected"
  /\ answered.key \in notified
  /\ rejLog[answered.key] = 1
  /\ stats = [total |-> 0, published |-> 0, rejected |-> 1]
  /\ ~MapHas(pending, answered.key)
  /\ \E k \in DOMAIN pending : k # answered.key
  /\ channel = <<>>

\* the voice handlers suspended in transcription
Transcribing == {h \in Running : h.pc = "stt"}

\* C22: while a voice handler is suspended in transcription its submission is
\* neither stored nor notified, and it holds nothing back: every other
\* suspended handler can take its next step, and the moderator's approve or
\* reject of a stored key is served.
C22_TranscriptionHoldsNothing ==
  \A h \in Transcribing :
    /\ ~MapHas(pending, h.key)
    /\ h.key \notin notified
    /\ \A g \in Running \ {h} :
         /\ g.pc = "reply" => ENABLED Notify
         /\ g.pc = "store" => ENABLED Store
         /\ g.pc = "deliver" => ENABLED Delivered
    /\ \A k \in DOMAIN pending :
         ApproveAnswer(adminId, k) = "deliver" /\ RejectAnswer(adminId, k) = "rejected"

\* a voice handler is still in transcription while the text of another
\* submitter has been stored, approved and delivered
C22_Witness ==
  \E h \in Transcribing :
    \E i \in 1..Len(channel) :
      /\ channel[i].key[2] # h.who
      /\ accepted[channel[i].key].type = "text"
      /\ ~MapHas(pending, channel[i].key)

\* the key and the handler of the message u sends in this step
NewKey(u) == Key(msgCount'[u], u)
StartedAsSubmission(u) ==
  \E h \in BagToSet(procs') :
    /\ h.key = NewKey(u) /\ h.pc = "reply" /\ h.type = "text"
    /\ h.caption = accepted'[NewKey(u)].content
    /\ BagCardinality(procs') = BagCardinality(procs) + 1

\* C23: a text message that passes the gate and comes from another identity
\* than the moderator, or from the moderator while no edit session is open, is
\* not consumed as an edit: the session and every stored submission stay as
\* they were and the message starts an ordinary submission.
C23_TextNotEdit ==
  [][ \A u \in Users :
        (MessageOf(u) /\ Passed(u) /\ accepted'[NewKey(u)].type = "text"
           /\ (u # adminId \/ awaitEdit = NoSession))
          => /\ awaitEdit' = awaitEdit
             /\ pending' = pending
             /\ StartedAsSubmission(u)
    ]_vars

\* a session is open and the text of another identity, sent after it was
\* opened, is on its way as a submission
C23_Witness ==
  /\ awaitEdit # NoSession
  /\ MapHas(pending, awaitEdit.key)
  /\ \E h \in Running : h.who # adminId /\ h.type = "text" /\ h.pc = "reply"

\* C24: in every state the published counter is the number of deliveries the
\* channel has received, and it changes only in a step in which the channel
\* receives one, by one.
C24_PublishedCountsDeliveries ==
  /\ [](stats.published = Len(channel))
  /\ [][stats'.published # stats.published
          => Published /\ stats'.published = stats.published + 1]_vars

\* deliveries, a failed delivery, a reject and an edit have all happened
C24_Witness ==
  /\ Len(channel) = 2
  /\ stats.published = 2
  /\ failLog # {}
  /\ stats.rejected = 1
  /\ awaitEdit # NoSession

\* C25: the text the moderator sends into an open session on a stored key
\* changes only the transcript of that key: no key is added to the store (the
\* text gets no key of its own and no controls), and the kind, media reference
\* and caption of the edited submission stay as they were.
C25_EditFrame ==
  (editLog.phase = "sent" /\ editLog.live)
    => /\ ~MapHas(pending, editLog.msg)
       /\ editLog.msg \notin notified
       /\ MapHas(pending, editLog.key)
            => /\ pending[editLog.key].type = accepted[editLog.key].type
               /\ pending[editLog.key].caption = accepted[editLog.key].content

\* the accepted /ban and /unban messages of the moderator
ModeratorBans ==
  {k \in DOMAIN accepted : k[2] = adminId /\ accepted[k].content \in {"/ban", "/unban"}}

\* C26: a /ban or /unban of the moderator leaves the pending store, the
\* cooldown map, the counters and the edit session as they were, in the step
\* that takes the command and afterwards: the command adds nothing to the store.
C26_BanFrame ==
  /\ [][ModeratorBanCommand => UNCHANGED <<pending, cooldown, stats, awaitEdit>>]_vars
  /\ [](\A k \in ModeratorBans : ~MapHas(pending, k))

====
